---- MODULE Spec2Model ----
(***************************************************************************)
(* State machine of src/src/App.tsx (VideoPlayer): the React state of the  *)
(* component, the <video> element it drives, the captureFrames runs that   *)
(* are suspended on a "seeked" notification, the trimVideo invocations     *)
(* that are suspended on fetchFile / ffmpeg.run, and the ffmpeg engine     *)
(* (its load promise, its single command slot and its virtual files).      *)
(*                                                                         *)
(* Times of the playhead are counted in ticks; a duration is a multiple of *)
(* frameCount ticks, so that video.duration / frameCount is exact.         *)
(* Trim start / duration are the numbers typed in the inputs (NaN is what  *)
(* parseFloat returns for an empty or non-numeric input).                  *)
(***************************************************************************)
EXTENDS Integers, Sequences, FiniteSets, TLC

\* ---------------------------------------------------------------- bounds
MaxLoads == 2
MaxJobs == 2
MaxClicks == 1
RatioScale == 2

\* ------------------------------------------------------ program constants
frameCount == 10
DefaultTrimDuration == 5
NaN == -1000

\* the values of the error state: null, and the two messages the code sets
\* (the text shown for a failed ffmpeg.load(), and for a failed trim)
NoError == "null"
LoadError == "ffmpeg-load-error"
TrimError == "trim-error"

\* a file the user can pick is characterised by the duration of its media:
\* an empty one, and one of frameCount ticks
Durations == {0, frameCount}
\* what parseFloat(e.target.value) can yield for the two number inputs
StartInputs == {-1}
DurationInputs == {NaN}
\* the ratios the engine reports, in units of 1/RatioScale
Ratios == 0..RatioScale

\* null references
NoSrc == [url |-> 0, dur |-> 0]
NoFile == [src |-> 0, by |-> 0]
NoOutput == [job |-> 0, src |-> 0]
NoBlob == [by |-> 0, data |-> NoOutput]
NoDuration == -1

VARIABLES
  videoSrc, trimmedSrc, frames, cursorTime, ffmpegReady,
  processingProgress, error, trimStart, trimDuration,
  engine, running, fsInput, fsOutput,
  jobs, video, runs, urls, clicks, loadCalls, last

vars == <<videoSrc, trimmedSrc, frames, cursorTime, ffmpegReady,
          processingProgress, error, trimStart, trimDuration,
          engine, running, fsInput, fsOutput,
          jobs, video, runs, urls, clicks, loadCalls, last>>

Op(name, arg) == [op |-> name, arg |-> arg]

\* ------------------------------------------------------------------ Init
\* The state after the first render and its effects: every useState initial
\* value, and the load effect has run once (setError(null); ffmpeg.load()
\* is pending).
Init ==
  /\ videoSrc = NoSrc
  /\ trimmedSrc = NoBlob
  /\ frames = <<>>
  /\ cursorTime = 0
  /\ ffmpegReady = FALSE
  /\ processingProgress = 0
  /\ error = NoError
  /\ trimStart = 0
  /\ trimDuration = DefaultTrimDuration
  /\ engine = "Loading"
  /\ running = 0
  /\ fsInput = NoFile
  /\ fsOutput = NoOutput
  /\ jobs = <<>>
  /\ video = [mounted |-> FALSE, src |-> NoSrc, duration |-> NoDuration,
              currentTime |-> 0, seeking |-> FALSE, paused |-> TRUE]
  /\ runs = <<>>
  /\ urls = 0
  /\ clicks = 0
  /\ loadCalls = 1
  /\ last = Op("mount", 0)

\* ------------------------------------------------- engine readiness gate
\* mutant of EffectReruns: an effect without a dependency list, which runs
\* again after every render
EffectRerunsEveryRender(before, after) == TRUE

\* useEffect(..., [ffmpegReady]): after a render the effect runs again when
\* its dependency is not the value of the previous render
EffectReruns(before, after) == before # after

\* the body of the load effect under a given ffmpegReady: whether it calls
\* ffmpeg.load()
LoadEffectCalls(ready) == ~ready

\* await ffmpeg.load() resolves: setFfmpegReady(true). The render that
\* follows has a new ffmpegReady, so the effect runs again, and does
\* nothing under ffmpegReady = true.
LoadResolve ==
  /\ engine = "Loading"
  /\ ffmpegReady' = TRUE
  /\ IF EffectReruns(ffmpegReady, TRUE) /\ LoadEffectCalls(TRUE)
     THEN /\ engine' = "Loading"
          /\ loadCalls' = loadCalls + 1
     ELSE /\ engine' = "Ready"
          /\ UNCHANGED loadCalls
  /\ last' = Op("loadResolve", 0)
  /\ UNCHANGED <<videoSrc, trimmedSrc, frames, cursorTime, processingProgress,
                 error, trimStart, trimDuration, running, fsInput, fsOutput,
                 jobs, video, runs, urls, clicks>>

\* await ffmpeg.load() rejects: setError(load error). The render that
\* follows has the same ffmpegReady (false), so the effect does not run
\* again; if it did, it would setError(null) and call ffmpeg.load() again.
LoadReject ==
  /\ engine = "Loading"
  /\ IF EffectReruns(ffmpegReady, ffmpegReady) /\ LoadEffectCalls(ffmpegReady)
     THEN /\ engine' = "Loading"
          /\ loadCalls' = loadCalls + 1
          /\ error' = NoError
     ELSE /\ engine' = "LoadFailed"
          /\ error' = LoadError
          /\ UNCHANGED loadCalls
  /\ last' = Op("loadReject", 0)
  /\ UNCHANGED <<videoSrc, trimmedSrc, frames, cursorTime, ffmpegReady,
                 processingProgress, trimStart, trimDuration, running,
                 fsInput, fsOutput, jobs, video, runs, urls, clicks>>

\* ------------------------------------------------------- handleFileChange
\* What a change of the video element's src does to it: the same element
\* is kept across renders, the new resource has no metadata yet, the
\* playhead is back at 0, playback is paused and a pending seek is abandoned
\* without "seeked". Listeners registered on the element stay registered.
LoadResource(src) ==
  [mounted |-> TRUE, src |-> src, duration |-> NoDuration,
   currentTime |-> 0, seeking |-> FALSE, paused |-> TRUE]

\* mutant of handleFileChange: setTrimmedSrc(null) and setError(null) are
\* missing
handleFileChangeKeepsResult(picked, d) ==
  IF ~picked
  THEN /\ last' = Op("fileNone", 0)
       /\ UNCHANGED <<videoSrc, trimmedSrc, frames, cursorTime, ffmpegReady,
                      processingProgress, error, trimStart, trimDuration,
                      engine, running, fsInput, fsOutput, jobs, video, runs,
                      urls, loadCalls, clicks>>
  ELSE /\ urls < MaxLoads
       /\ urls' = urls + 1
       /\ videoSrc' = [url |-> urls + 1, dur |-> d]
       /\ frames' = <<>>
       /\ cursorTime' = 0
       /\ trimStart' = 0
       /\ trimDuration' = DefaultTrimDuration
       /\ processingProgress' = 0
       /\ video' = LoadResource([url |-> urls + 1, dur |-> d])
       /\ last' = Op("load", urls + 1)
       /\ UNCHANGED <<trimmedSrc, error, ffmpegReady, engine, running,
                      fsInput, fsOutput, jobs, runs, clicks, loadCalls>>

\* onChange of the file input; picked = FALSE is e.target.files?.[0] being
\* undefined. URL.createObjectURL returns a fresh URL for every call.
handleFileChange(picked, d) ==
  IF ~picked
  THEN /\ last' = Op("fileNone", 0)
       /\ UNCHANGED <<videoSrc, trimmedSrc, frames, cursorTime, ffmpegReady,
                      processingProgress, error, trimStart, trimDuration,
                      engine, running, fsInput, fsOutput, jobs, video, runs,
                      urls, loadCalls, clicks>>
  ELSE /\ urls < MaxLoads
       /\ urls' = urls + 1
       /\ videoSrc' = [url |-> urls + 1, dur |-> d]
       /\ trimmedSrc' = NoBlob
       /\ frames' = <<>>
       /\ cursorTime' = 0
       /\ trimStart' = 0
       /\ trimDuration' = DefaultTrimDuration
       /\ error' = NoError
       /\ processingProgress' = 0
       /\ video' = LoadResource([url |-> urls + 1, dur |-> d])
       /\ last' = Op("load", urls + 1)
       /\ UNCHANGED <<ffmpegReady, engine, running, fsInput, fsOutput, jobs,
                      runs, clicks, loadCalls>>

\* ------------------------------------------------- trim start / duration
\* onChange of the two number inputs (rendered only with a video loaded)
setTrimStart(v) ==
  /\ videoSrc # NoSrc
  /\ trimStart' = v
  /\ last' = Op("setTrimStart", 0)
  /\ UNCHANGED <<videoSrc, trimmedSrc, frames, cursorTime, ffmpegReady,
                 processingProgress, error, trimDuration, engine, running,
                 fsInput, fsOutput, jobs, video, runs, urls, loadCalls, clicks>>

setTrimDuration(v) ==
  /\ videoSrc # NoSrc
  /\ trimDuration' = v
  /\ last' = Op("setTrimDuration", 0)
  /\ UNCHANGED <<videoSrc, trimmedSrc, frames, cursorTime, ffmpegReady,
                 processingProgress, error, trimStart, engine, running,
                 fsInput, fsOutput, jobs, video, runs, urls, loadCalls, clicks>>

\* -------------------------------------------------------------- trimVideo
\* Number.prototype.toString of a trim value
NumToString(x) == IF x = NaN THEN "NaN" ELSE ToString(x)

\* mutant of RunArgs: the arguments read from the current state instead of
\* the values the invocation closed over
RunArgsLive(job) ==
  <<"-ss", NumToString(trimStart), "-i", "input.mp4",
    "-t", NumToString(trimDuration), "-c", "copy", "output.mp4">>

\* the arguments of ffmpeg.run, from the values the invocation closed over
RunArgs(job) ==
  <<"-ss", NumToString(job.ss), "-i", "input.mp4",
    "-t", NumToString(job.t), "-c", "copy", "output.mp4">>

\* mutant of TrimGuard: the engine gate is missing
TrimGuardNoGate == videoSrc # NoSrc

\* the condition under which trimVideo goes on past its first line
TrimGuard == ffmpegReady /\ videoSrc # NoSrc

InFlight(j) == jobs[j].pc \in {"fetch", "run"}

\* an invocation that has returned: its outcome ("done" after
\* setTrimmedSrc, "failed" after the catch block) and whether its command
\* ended with a non-zero exit status; what it closed over is no longer
\* held by anything
Ended(outcome, exitOk) ==
  [pc |-> outcome, src |-> NoSrc, ss |-> 0, t |-> 0, args |-> <<>>,
   read |-> 0, exitOk |-> exitOk]

\* A call of trimVideo, up to its first await: the early return, or
\* setError(null), setProcessingProgress(0) and fetchFile(videoSrc) pending.
\* The invocation keeps the videoSrc, trimStart and trimDuration of the
\* render it was created in.
trimVideo ==
  IF ~TrimGuard
  THEN /\ last' = Op("trimReturn", 0)
       /\ UNCHANGED <<videoSrc, trimmedSrc, frames, cursorTime, ffmpegReady,
                      processingProgress, error, trimStart, trimDuration,
                      engine, running, fsInput, fsOutput, jobs, video, runs,
                      urls, loadCalls, clicks>>
  ELSE /\ Len(jobs) < MaxJobs
       /\ error' = NoError
       /\ processingProgress' = 0
       /\ jobs' = Append(jobs, [pc |-> "fetch", src |-> videoSrc,
                                ss |-> trimStart, t |-> trimDuration,
                                args |-> <<>>, read |-> 0, exitOk |-> TRUE])
       /\ last' = Op("trimVideo", Len(jobs) + 1)
       /\ UNCHANGED <<videoSrc, trimmedSrc, frames, cursorTime, ffmpegReady,
                      trimStart, trimDuration, engine, running, fsInput,
                      fsOutput, video, runs, urls, loadCalls, clicks>>

\* await fetchFile(videoSrc) rejects
fetchReject(j) ==
  /\ jobs[j].pc = "fetch"
  /\ error' = TrimError
  /\ jobs' = [jobs EXCEPT ![j] = Ended("failed", TRUE)]
  /\ last' = Op("fetchReject", j)
  /\ UNCHANGED <<videoSrc, trimmedSrc, frames, cursorTime, ffmpegReady,
                 processingProgress, trimStart, trimDuration, engine, running,
                 fsInput, fsOutput, video, runs, urls, loadCalls, clicks>>

\* await fetchFile(videoSrc) resolves; then, without suspending,
\* ffmpeg.FS("writeFile", "input.mp4", fileData) and the call of ffmpeg.run.
\* FS throws when the engine is not loaded or the write fails; run throws
\* when the engine is already running a command (it runs one at a time).
fetchResolve(j, writeOk) ==
  /\ jobs[j].pc = "fetch"
  /\ IF engine # "Ready" \/ ~writeOk
     THEN /\ error' = TrimError
          /\ jobs' = [jobs EXCEPT ![j] = Ended("failed", TRUE)]
          /\ last' = Op("writeThrew", j)
          /\ UNCHANGED <<running, fsInput>>
     ELSE /\ fsInput' = [src |-> jobs[j].src.url, by |-> j]
          /\ IF running # 0
             THEN /\ error' = TrimError
                  /\ jobs' = [jobs EXCEPT ![j] = Ended("failed", TRUE)]
                  /\ last' = Op("runThrew", j)
                  /\ UNCHANGED running
             ELSE /\ running' = j
                  /\ jobs' = [jobs EXCEPT ![j].pc = "run",
                                          ![j].args = RunArgs(jobs[j]),
                                          ![j].read = jobs[j].src.url]
                  /\ last' = Op("runCalled", j)
                  /\ UNCHANGED error
  /\ UNCHANGED <<videoSrc, trimmedSrc, frames, cursorTime, ffmpegReady,
                 processingProgress, trimStart, trimDuration, engine,
                 fsOutput, video, runs, urls, loadCalls, clicks>>

\* mutant of progress: the remaining share is published, not the ratio
progressRemaining(r) ==
  /\ running # 0
  /\ processingProgress' = RatioScale - r
  /\ last' = Op("progress", r)
  /\ UNCHANGED <<videoSrc, trimmedSrc, frames, cursorTime, ffmpegReady,
                 error, trimStart, trimDuration, engine, running, fsInput,
                 fsOutput, jobs, video, runs, urls, loadCalls, clicks>>

\* the callback given to ffmpeg.setProgress: the engine reports a ratio
\* while it runs a command
progress(r) ==
  /\ running # 0
  /\ processingProgress' = r
  /\ last' = Op("progress", r)
  /\ UNCHANGED <<videoSrc, trimmedSrc, frames, cursorTime, ffmpegReady,
                 error, trimStart, trimDuration, engine, running, fsInput,
                 fsOutput, jobs, video, runs, urls, loadCalls, clicks>>

\* what the command leaves in output.mp4: with exit status 0 the trim of
\* the input it read, otherwise the file is left as it was
OutputAfter(j, exitOk) ==
  IF exitOk
  THEN [job |-> j, src |-> jobs[j].read]
  ELSE fsOutput

\* await ffmpeg.run(...) resolves (the command ended, whatever its exit
\* status); then ffmpeg.FS("readFile", "output.mp4"), which throws when
\* there is no such file, the Blob, its URL and setTrimmedSrc.
runResolve(exitOk) ==
  /\ running # 0
  /\ running' = 0
  /\ fsOutput' = OutputAfter(running, exitOk)
  /\ IF OutputAfter(running, exitOk) = NoOutput
     THEN /\ error' = TrimError
          /\ jobs' = [jobs EXCEPT ![running] = Ended("failed", exitOk)]
          /\ last' = Op("readThrew", running)
          /\ UNCHANGED trimmedSrc
     ELSE /\ trimmedSrc' = [by |-> running,
                            data |-> OutputAfter(running, exitOk)]
          /\ jobs' = [jobs EXCEPT ![running] =
                             Ended("done", exitOk)]
          /\ last' = Op("completed", running)
          /\ UNCHANGED error
  /\ UNCHANGED <<videoSrc, frames, cursorTime, ffmpegReady,
                 processingProgress, trimStart, trimDuration, engine,
                 fsInput, video, runs, urls, loadCalls, clicks>>

\* await ffmpeg.run(...) rejects
runReject ==
  /\ running # 0
  /\ running' = 0
  /\ error' = TrimError
  /\ jobs' = [jobs EXCEPT ![running] = Ended("failed", TRUE)]
  /\ last' = Op("runReject", running)
  /\ UNCHANGED <<videoSrc, trimmedSrc, frames, cursorTime, ffmpegReady,
                 processingProgress, trimStart, trimDuration, engine,
                 fsInput, fsOutput, video, runs, urls, loadCalls, clicks>>

\* ---------------------------------------------------------- captureFrames
Min(a, b) == IF a < b THEN a ELSE b

\* video.currentTime = t: without metadata (readyState HAVE_NOTHING) no
\* seek starts; otherwise a seek to t, clamped to the duration, starts and
\* replaces the seek that was pending
SetCurrentTime(v, t) ==
  IF v.duration = NoDuration
  THEN v
  ELSE [v EXCEPT !.currentTime = Min(t, v.duration), !.seeking = TRUE]

\* const time = i * interval
SampleTime(r) == r.i * r.interval

\* mutant of LoopContinues: i < frameCount
LoopContinuesExclusive(i) == i + 1 < frameCount

\* the loop condition i <= frameCount, asked after i++
LoopContinues(i) == i + 1 <= frameCount

\* mutant of FramesAfter: setFrames(thumbnails) after every capture
FramesAfterEachCapture(finished, thumbnails, fr) == thumbnails

\* the frame strip after one handler ran: setFrames(thumbnails) is called
\* after the loop only
FramesAfter(finished, thumbnails, fr) ==
  IF finished THEN thumbnails ELSE fr

\* The "seeked" handler of run k and the continuation it resolves: the
\* capture (drawImage of what the element shows, settled at pos), then
\* either the next iteration (a new handler, video.currentTime = time) or
\* setFrames(thumbnails), after which the run has returned and its
\* thumbnails array is held by the frames state only.
\* acc = [runs, video, frames, pub].
HandlerStep(acc, k, pos) ==
  LET r == acc.runs[k]
      thumbs == Append(r.thumbnails,
                       [time |-> SampleTime(r),
                        image |-> [src |-> acc.video.src.url, pos |-> pos]])
      more == LoopContinues(r.i)
      r2 == IF more
            THEN [r EXCEPT !.thumbnails = thumbs, !.i = r.i + 1]
            ELSE [r EXCEPT !.thumbnails = <<>>, !.i = r.i + 1, !.pc = "done"]
  IN [runs |-> [acc.runs EXCEPT ![k] = r2],
      video |-> IF more
                THEN SetCurrentTime(acc.video, SampleTime(r2))
                ELSE acc.video,
      frames |-> FramesAfter(~more, thumbs, acc.frames),
      pub |-> IF more THEN acc.pub ELSE k]

\* dispatch of one "seeked" event to the handlers registered when it
\* fires, in registration order (runs k..Len(runs) that are awaiting)
RECURSIVE Dispatch(_, _, _)
Dispatch(acc, k, pos) ==
  IF k > Len(acc.runs)
  THEN acc
  ELSE Dispatch(IF acc.runs[k].pc = "await" THEN HandlerStep(acc, k, pos)
                ELSE acc,
                k + 1, pos)

\* "loadedmetadata" of the current resource: the duration becomes known
\* and onLoadedMetadata calls captureFrames(), which runs up to its first
\* await: interval, i = 0, the "seeked" handler, video.currentTime = 0.
loadedmetadata ==
  /\ video.mounted
  /\ video.duration = NoDuration
  /\ LET v == [video EXCEPT !.duration = video.src.dur]
         r == [res |-> video.src, interval |-> v.duration \div frameCount,
               i |-> 0, thumbnails |-> <<>>, pc |-> "await"]
     IN /\ runs' = Append(runs, r)
        /\ video' = SetCurrentTime(v, SampleTime(r))
  /\ last' = Op("loadedmetadata", Len(runs) + 1)
  /\ UNCHANGED <<videoSrc, trimmedSrc, frames, cursorTime, ffmpegReady,
                 processingProgress, error, trimStart, trimDuration, engine,
                 running, fsInput, fsOutput, jobs, urls, loadCalls, clicks>>

\* video.ended: the playhead is at the end of a resource whose duration is
\* known
VideoEnded(v) == v.duration # NoDuration /\ v.currentTime = v.duration

\* updateCursor, the "timeupdate" listener
CursorAfterUpdate(v, cur) ==
  IF ~v.paused /\ ~VideoEnded(v) THEN v.currentTime ELSE cur

\* the pending seek settles: "timeupdate" (updateCursor) and then "seeked"
\* are dispatched
seeked ==
  /\ video.seeking
  /\ cursorTime' = CursorAfterUpdate(video, cursorTime)
  /\ LET acc == Dispatch([runs |-> runs,
                          video |-> [video EXCEPT !.seeking = FALSE],
                          frames |-> frames, pub |-> 0],
                         1, video.currentTime)
     IN /\ runs' = acc.runs
        /\ video' = acc.video
        /\ frames' = acc.frames
        /\ last' = Op("seeked", acc.pub)
  /\ UNCHANGED <<videoSrc, trimmedSrc, ffmpegReady,
                 processingProgress, error, trimStart, trimDuration, engine,
                 running, fsInput, fsOutput, jobs, urls, loadCalls, clicks>>

\* the pending seek never settles (the element gives it up on a decode or
\* network error): no "seeked" is dispatched, and nothing in captureFrames
\* listens for anything else
seekFails ==
  /\ video.seeking
  /\ video' = [video EXCEPT !.seeking = FALSE]
  /\ last' = Op("seekFails", 0)
  /\ UNCHANGED <<videoSrc, trimmedSrc, frames, cursorTime, ffmpegReady,
                 processingProgress, error, trimStart, trimDuration, engine,
                 running, fsInput, fsOutput, jobs, runs, urls, loadCalls, clicks>>

\* onClick of the k-th rendered frame: onTimelineClick(frame.time)
onTimelineClick(k) ==
  /\ k \in 1..Len(frames)
  /\ video.mounted
  /\ clicks < MaxClicks
  /\ clicks' = clicks + 1
  /\ video' = SetCurrentTime(video, frames[k].time)
  /\ last' = Op("click", frames[k].time)
  /\ UNCHANGED <<videoSrc, trimmedSrc, frames, cursorTime, ffmpegReady,
                 processingProgress, error, trimStart, trimDuration, engine,
                 running, fsInput, fsOutput, jobs, runs, urls, loadCalls>>

\* ------------------------------------------------------- getCursorPosition
\* timeline.clientWidth: a collapsed track, and tracks of some width
Widths == {0, 1, 600}

\* getCursorPosition() of a render, in whole pixels: 0 without the element
\* or with a duration of 0; otherwise min(cursorTime / duration * width,
\* width). video.duration is NaN until the metadata of the resource is
\* loaded, and then so are the ratio and Math.min(NaN, width).
getCursorPosition(v, cur, width) ==
  IF ~v.mounted \/ v.duration = 0
  THEN 0
  ELSE IF v.duration = NoDuration
       THEN NaN
       ELSE Min((cur * width) \div v.duration, width)

\* ------------------------------------------------------ playback (controls)
\* the positions at which a playing element reports "timeupdate"
PlayPositions(d) == {d \div 2}

\* the play button of the native controls; playing an ended resource starts
\* over with a seek to 0
play ==
  /\ video.mounted
  /\ video.duration # NoDuration
  /\ video.paused
  /\ video' = IF VideoEnded(video)
              THEN SetCurrentTime([video EXCEPT !.paused = FALSE], 0)
              ELSE [video EXCEPT !.paused = FALSE]
  /\ last' = Op("play", 0)
  /\ UNCHANGED <<videoSrc, trimmedSrc, frames, cursorTime, ffmpegReady,
                 processingProgress, error, trimStart, trimDuration, engine,
                 running, fsInput, fsOutput, jobs, runs, urls, loadCalls, clicks>>

\* the pause button of the native controls
pause ==
  /\ video.mounted
  /\ ~video.paused
  /\ video' = [video EXCEPT !.paused = TRUE]
  /\ last' = Op("pause", 0)
  /\ UNCHANGED <<videoSrc, trimmedSrc, frames, cursorTime, ffmpegReady,
                 processingProgress, error, trimStart, trimDuration, engine,
                 running, fsInput, fsOutput, jobs, runs, urls, loadCalls, clicks>>

\* playback has advanced the playhead to t, short of the end: "timeupdate"
\* runs updateCursor
timeupdate(t) ==
  /\ video.mounted
  /\ video.duration # NoDuration
  /\ ~video.paused
  /\ ~video.seeking
  /\ video.currentTime < t
  /\ t < video.duration
  /\ video' = [video EXCEPT !.currentTime = t]
  /\ cursorTime' = CursorAfterUpdate([video EXCEPT !.currentTime = t], cursorTime)
  /\ last' = Op("timeupdate", 0)
  /\ UNCHANGED <<videoSrc, trimmedSrc, frames, ffmpegReady,
                 processingProgress, error, trimStart, trimDuration, engine,
                 running, fsInput, fsOutput, jobs, runs, urls, loadCalls, clicks>>

\* playback has reached the end: the element pauses, "timeupdate" runs
\* updateCursor (which does nothing, video.ended being true) and "ended"
\* runs onEnded: setCursorTime(video.duration)
ended ==
  /\ video.mounted
  /\ video.duration # NoDuration
  /\ ~video.paused
  /\ ~video.seeking
  /\ video' = [video EXCEPT !.currentTime = video.duration, !.paused = TRUE]
  /\ cursorTime' = video.duration
  /\ last' = Op("ended", 0)
  /\ UNCHANGED <<videoSrc, trimmedSrc, frames, ffmpegReady,
                 processingProgress, error, trimStart, trimDuration, engine,
                 running, fsInput, fsOutput, jobs, runs, urls, loadCalls, clicks>>

\* --------------------------------------------------------- specifications
FileStep == \E picked \in BOOLEAN, d \in Durations : handleFileChange(picked, d)
\* where the duration of the media does not matter: files of one duration
TrimFileStep == \E picked \in BOOLEAN : handleFileChange(picked, frameCount)
EngineLoadStep == LoadResolve \/ LoadReject
TrimInputStep ==
  \/ \E v \in StartInputs : setTrimStart(v)
  \/ \E v \in DurationInputs : setTrimDuration(v)
FetchStep == \E j \in 1..Len(jobs) :
               fetchReject(j) \/ \E ok \in BOOLEAN : fetchResolve(j, ok)
ProgressStep == \E r \in Ratios : progress(r)
RunEndStep == runReject \/ \E ok \in BOOLEAN : runResolve(ok)
\* the frames the user clicks: the first, a middle one and the last
ClickedFrames == {1, (frameCount \div 2) + 1, frameCount + 1}
ClickStep == \E k \in ClickedFrames : onTimelineClick(k)

\* the trim job controller and the engine
NextTrim ==
  \/ TrimFileStep
  \/ EngineLoadStep
  \/ TrimInputStep
  \/ trimVideo
  \/ FetchStep
  \/ ProgressStep
  \/ RunEndStep

\* the frame sampler and the playhead
NextSampler ==
  \/ FileStep
  \/ loadedmetadata
  \/ seeked
  \/ seekFails
  \/ ClickStep

TimeUpdateStep == \E t \in PlayPositions(video.duration) : timeupdate(t)

\* the playhead under the native controls, the sampler and the frame clicks
NextPlayback ==
  \/ TrimFileStep
  \/ loadedmetadata
  \/ seeked
  \/ ClickStep
  \/ play
  \/ TimeUpdateStep
  \/ ended

\* a session of loads, engine start, edits of the trim inputs, sampling
\* and playback
NextReload ==
  \/ TrimFileStep
  \/ EngineLoadStep
  \/ TrimInputStep
  \/ loadedmetadata
  \/ seeked
  \/ play
  \/ TimeUpdateStep
  \/ ended

Next ==
  \/ FileStep
  \/ EngineLoadStep
  \/ TrimInputStep
  \/ trimVideo
  \/ FetchStep
  \/ ProgressStep
  \/ RunEndStep
  \/ loadedmetadata
  \/ seeked
  \/ seekFails
  \/ ClickStep
  \/ play
  \/ pause
  \/ TimeUpdateStep
  \/ ended

Spec == Init /\ [][Next]_vars
SpecTrim == Init /\ [][NextTrim]_vars
SpecSampler == Init /\ [][NextSampler]_vars
SpecPlayback == Init /\ [][NextPlayback]_vars
SpecReload == Init /\ [][NextReload]_vars
\* a pending seek that can settle does settle: the element delivers
\* "seeked" unless it gives the seek up
FairSpecSampler == SpecSampler /\ WF_vars(seeked)

\* ------------------------------------------------------------------ claims
JobIds == 1..Len(jobs)
RunIds == 1..Len(runs)

\* C1: a call of trimVideo while ffmpegReady is false returns without
\* fetching, writing or running anything and leaves error,
\* processingProgress and trimmedSrc as they were; and no invocation is in
\* flight, and no engine command runs, unless ffmpegReady is true.
C1_NotReadyRejected ==
  /\ []((\A j \in JobIds : InFlight(j) => ffmpegReady)
        /\ (running # 0 => ffmpegReady))
  /\ [][(~ffmpegReady /\ last'.op \in {"trimReturn", "trimVideo"})
         => UNCHANGED <<error, processingProgress, trimmedSrc, jobs, running,
                        fsInput, fsOutput, loadCalls>>]_vars

C1_Witness ==
  /\ last.op = "trimReturn"
  /\ ~ffmpegReady
  /\ videoSrc # NoSrc

\* C2: no invocation of trimVideo writes input.mp4 or calls ffmpeg.run
\* while an earlier invocation is still in flight (has reached neither
\* setTrimmedSrc nor setError).
C2_SingleTrimInFlight ==
  last.op \in {"runCalled", "runThrew"}
    => \A i \in JobIds : i < last.arg => ~InFlight(i)

\* C3: a sampling run started on a resource of duration D that gets to
\* its end publishes exactly frameCount + 1 frames, the i-th (from 0) with
\* time = i * D / frameCount: non-decreasing, from 0 to D.
C3_SampleTimes ==
  (last.op = "seeked" /\ last.arg # 0) =>
    LET D == runs[last.arg].res.dur
    IN /\ Len(frames) = frameCount + 1
       /\ \A i \in 1..Len(frames) : frames[i].time * frameCount = (i - 1) * D
       /\ \A i \in 1..(Len(frames) - 1) : frames[i].time <= frames[i + 1].time
       /\ frames[1].time = 0
       /\ frames[Len(frames)].time = D

C3_Witness ==
  /\ last.op = "seeked"
  /\ last.arg # 0
  /\ runs[last.arg].res.dur = frameCount
  /\ frames # <<>>

\* C4: the published frame strip is empty or holds frameCount + 1 frames,
\* never a part of a run; a run whose seek never settles leaves it empty.
C4_AllOrNothing == Len(frames) \in {0, frameCount + 1}

C4_Witness ==
  /\ last.op = "seekFails"
  /\ frames = <<>>
  /\ \E k \in RunIds : /\ runs[k].pc = "await"
                        /\ Len(runs[k].thumbnails) \in 1..frameCount

\* C5: a run whose seek is lost (it awaits "seeked" and no seek is
\* pending) does not stay suspended for ever: it eventually ends.
SeekLost(k) == k \in RunIds /\ runs[k].pc = "await" /\ ~video.seeking

C5_LostSeekEndsRun ==
  \A k \in 1..MaxLoads :
    [](SeekLost(k) => <>(k \in RunIds /\ runs[k].pc # "await"))

\* C6: after handleFileChange with a file, frames is empty, cursorTime 0,
\* trimmedSrc null, error null, processingProgress 0, trimStart 0 and
\* trimDuration 5 (and videoSrc the new URL); with no file selected the
\* handler changes nothing.
C6_LoadResets ==
  /\ [](last.op = "load" =>
          /\ frames = <<>>
          /\ cursorTime = 0
          /\ trimmedSrc = NoBlob
          /\ error = NoError
          /\ processingProgress = 0
          /\ trimStart = 0
          /\ trimDuration = 5
          /\ videoSrc.url = last.arg)
  /\ [][last'.op = "fileNone" =>
          UNCHANGED <<videoSrc, trimmedSrc, frames, cursorTime, ffmpegReady,
                      processingProgress, error, trimStart, trimDuration,
                      engine, running, fsInput, fsOutput, jobs, video, runs,
                      urls, loadCalls>>]_vars

\* a second load, after the run of the first resource has published its
\* frames
C6_Witness ==
  /\ last.op = "load"
  /\ urls = 2
  /\ \E k \in RunIds : runs[k].pc = "done"

\* C7: an accepted submission shows Running(0) (processingProgress 0, no
\* error); every ratio the engine reports, a number in [0, 1], is
\* republished as it is, while the command of a job that has not ended
\* runs; a successful job ends with trimmedSrc set by that job, and no
\* progress is reported for a job once it has completed.
C7_TrimLifecycle ==
  /\ last.op = "trimVideo" =>
       /\ processingProgress = 0
       /\ error = NoError
       /\ jobs[last.arg].pc = "fetch"
  /\ last.op = "progress" =>
       /\ processingProgress = last.arg
       /\ last.arg \in 0..RatioScale
       /\ running \in JobIds
       /\ jobs[running].pc = "run"
  /\ last.op = "completed" =>
       /\ trimmedSrc # NoBlob
       /\ trimmedSrc.by = last.arg
       /\ jobs[last.arg].pc = "done"
  /\ \A j \in JobIds : jobs[j].pc \in {"done", "failed"} => running # j

C7_Witness ==
  /\ last.op = "completed"
  /\ Len(jobs) = 1
  /\ jobs[1].exitOk
  /\ processingProgress = RatioScale

\* C8: a job one of whose steps failed (here: its command ended with a
\* non-zero exit status) ends Failed and does not publish an artifact.
C8_FailureNeverCompletes ==
  \A j \in JobIds :
    (jobs[j].pc \in {"done", "failed"} /\ ~jobs[j].exitOk)
      => (jobs[j].pc = "failed" /\ trimmedSrc.by # j)

\* C9: the -ss and -t arguments given to ffmpeg.run, and the source that
\* is fetched and written to input.mp4, are the trimStart, trimDuration and
\* videoSrc of the moment trimVideo was called.
C9_RequestSnapshot ==
  \A j \in JobIds :
    jobs[j].pc = "run" =>
      /\ jobs[j].args[2] = NumToString(jobs[j].ss)
      /\ jobs[j].args[6] = NumToString(jobs[j].t)
      /\ jobs[j].read = jobs[j].src.url

\* the user has edited the start and loaded another file while the job
\* awaits ffmpeg.run
C9_Witness ==
  \E j \in JobIds :
    /\ jobs[j].pc = "run"
    /\ jobs[j].ss # trimStart
    /\ jobs[j].src # videoSrc

\* C10: at no time are two captureFrames runs active.
C10_OneSamplerRun ==
  Cardinality({k \in RunIds : runs[k].pc = "await"}) <= 1

\* C11: ffmpeg.load() is called once, at startup: the engine goes from
\* Loading to Ready or to LoadFailed and makes no other move; ffmpegReady,
\* once true, stays true; and no later event (a file load, a trim click,
\* an edit, a render) calls ffmpeg.load() again, a failed load included.
C11_LoadedOnce ==
  /\ [](loadCalls = 1)
  /\ [](ffmpegReady <=> engine = "Ready")
  /\ [][engine' # engine =>
          engine = "Loading" /\ engine' \in {"Ready", "LoadFailed"}]_vars
  /\ [][ffmpegReady => ffmpegReady']_vars

\* the load has failed, and a file was loaded and the trim button clicked
\* afterwards
C11_Witness ==
  /\ engine = "LoadFailed"
  /\ last.op = "trimReturn"
  /\ error = NoError
  /\ urls >= 1

\* C12: the cursor offset of a render lies in [0, width]. The renders
\* looked at are those that follow a handler which always changes React
\* state while the video element exists: the settling of ffmpeg.load(), and
\* the position notifications.
C12_OffsetInTrack ==
  \A w \in Widths :
    (video.mounted /\ last.op \in {"loadResolve", "loadReject", "seeked",
                                   "timeupdate", "ended"})
      => getCursorPosition(video, cursorTime, w) \in 0..w

\* C13: a click on a frame starts a seek whose target is that frame's
\* time: the position the playhead has once the seek settles (the
\* element's currentTime from the moment the seek starts) is frame.time.
C13_ClickSeeksToFrameTime ==
  last.op = "click" => (video.seeking /\ video.currentTime = last.arg)

\* C14: every command handed to ffmpeg.run has a -ss argument that is a
\* number >= 0 and a -t argument that is a number > 0.
C14_ValidTrimRequest ==
  \A j \in JobIds :
    jobs[j].pc = "run" =>
      /\ jobs[j].args[2] # "NaN"
      /\ jobs[j].args[6] # "NaN"
      /\ jobs[j].args[2] = NumToString(jobs[j].ss) => jobs[j].ss >= 0
      /\ jobs[j].args[6] = NumToString(jobs[j].t) => jobs[j].t > 0

\* C15: every frame is captured with the playhead settled at the frame's
\* recorded time, on the resource its run was started for (the seek that
\* settled is the run's own), and no frame click starts a seek while a
\* sampling run awaits one.
Captures == UNION {{runs[k].thumbnails[n] : n \in 1..Len(runs[k].thumbnails)}
                     : k \in RunIds}
             \cup {frames[n] : n \in 1..Len(frames)}

C15_SeeksDoNotOverlap ==
  /\ \A f \in Captures : f.image.pos = f.time
  /\ \A k \in RunIds :
       \A n \in 1..Len(runs[k].thumbnails) :
         runs[k].thumbnails[n].image.src = runs[k].res.url
  /\ last.op = "click" => \A k \in RunIds : runs[k].pc # "await"

\* C16: whenever the playhead is settled (the duration is known and no
\* seek is pending; a position notification is delivered in the step that
\* moves the playhead), the cursor time is the element's currentTime.
C16_CursorIsLive ==
  (video.mounted /\ video.duration # NoDuration /\ ~video.seeking)
    => cursorTime = video.currentTime

\* C17: the frame strip is published by a run started for the resource
\* that is loaded, and every published frame has a time within the
\* duration of that resource.
C17_FramesOfCurrentResource ==
  /\ (last.op = "seeked" /\ last.arg # 0) => runs[last.arg].res = videoSrc
  /\ \A n \in 1..Len(frames) : frames[n].time \in 0..videoSrc.dur

\* C18: a trim job whose source is no longer the loaded resource changes
\* neither trimmedSrc nor error nor processingProgress: every step by which
\* a job reports (a progress ratio, its artifact, its failure) is the step
\* of a job submitted for the resource that is loaded.
C18_ResultsFencedByLoad ==
  /\ [][last'.op \in {"completed", "readThrew", "runReject", "fetchReject",
                      "writeThrew", "runThrew"}
          => jobs[last'.arg].src = videoSrc]_vars
  /\ [][last'.op = "progress" => jobs[running].src = videoSrc]_vars

\* C19: at most one of the three displays is on: the progress bar
\* (0 < processingProgress < 1), the trimmed result (trimmedSrc non-null),
\* the trim error.
RunningShown == 0 < processingProgress /\ processingProgress < RatioScale
CompletedShown == trimmedSrc # NoBlob
FailedShown == error = TrimError

C19_SingleProcessingState ==
  /\ ~(RunningShown /\ CompletedShown)
  /\ ~(RunningShown /\ FailedShown)
  /\ ~(CompletedShown /\ FailedShown)

\* C20: the artifact a job publishes is what that job's own command wrote
\* to output.mp4, from the input.mp4 that job wrote.
C20_OwnArtifact ==
  trimmedSrc # NoBlob => trimmedSrc.data.job = trimmedSrc.by

====
